---- MODULE Spec2Model ----
(***************************************************************************)
(* The pixel refresh engine of cores/blinkcore/pixel.cpp: six multiplexed  *)
(* RGB pixels driven by Timer0 (red, green), Timer2 (blue charge pump) and *)
(* the TIMER0_OVF interrupt that steps the anode / phase sequencer.        *)
(*                                                                         *)
(* The foreground (pixel_init, pixel_setRGB, pixel_SetAllRGB,              *)
(* pixel_enable, pixel_disable) runs one statement per step.  The overflow *)
(* interrupt preempts the foreground between any two statements while      *)
(* Timer0 is clocked, and runs to completion, one statement per step,      *)
(* before the foreground resumes.  Time is abstracted: an overflow may     *)
(* arrive whenever Timer0 is clocked and no handler is running.            *)
(*                                                                         *)
(* Spec is the whole engine.  SpecMapper is the colour mapper alone        *)
(* (pixel_setRGB and pixel_SetAllRGB with inputs over the whole 8-bit      *)
(* range, timers never started).                                           *)
(***************************************************************************)
EXTENDS Integers, Sequences, FiniteSets, TLC

(* ------------------------------------------------------------------ *)
(* Program constants                                                   *)
(* ------------------------------------------------------------------ *)

PIXEL_COUNT == 6

PHASE_COUNT == 5

\* Compare value that keeps a PWM output constantly high (LED off).
OFF == 255

\* TIMSK0 = _BV(TOIE0)
TOIE0_MASK == 1

\* TCCR0A = _BV(WGM00) | _BV(WGM01) | _BV(COM0A1) | _BV(COM0B1)
TCCR0A_PWM == 163

\* TCCR2A = _BV(COM2B1) | _BV(WGM01) | _BV(WGM00)
TCCR2A_PWM == 35

\* TCCR0B = _BV(CS01)
CS01_MASK == 2

\* TCCR2B = _BV(CS21)
CS21_MASK == 2

\* Attenuation divisors of pixel_setRGB
DIV_R == 3

DIV_G == 2

DIV_B == 2

\* uint8_t r, g, b
MaxInput == 255

gamma8 ==
  << 0,  0,  0,  0,  0,  0,  0,  0,  0,  0,  0,  0,  0,  0,  0,  0,
     0,  0,  0,  0,  0,  0,  0,  0,  0,  0,  0,  0,  1,  1,  1,  1,
     1,  1,  1,  1,  1,  1,  1,  1,  1,  2,  2,  2,  2,  2,  2,  2,
     2,  3,  3,  3,  3,  3,  3,  3,  4,  4,  4,  4,  4,  5,  5,  5,
     5,  6,  6,  6,  6,  7,  7,  7,  7,  8,  8,  8,  9,  9,  9, 10,
     10, 10, 11, 11, 11, 12, 12, 13, 13, 13, 14, 14, 15, 15, 16, 16,
     17, 17, 18, 18, 19, 19, 20, 20, 21, 21, 22, 22, 23, 24, 24, 25,
     25, 26, 27, 27, 28, 29, 29, 30, 31, 32, 32, 33, 34, 35, 35, 36,
     37, 38, 39, 39, 40, 41, 42, 43, 44, 45, 46, 47, 48, 49, 50, 50,
     51, 52, 54, 55, 56, 57, 58, 59, 60, 61, 62, 63, 64, 66, 67, 68,
     69, 70, 72, 73, 74, 75, 77, 78, 79, 81, 82, 83, 85, 86, 87, 89,
     90, 92, 93, 95, 96, 98, 99,101,102,104,105,107,109,110,112,114,
     115,117,119,120,122,124,126,127,129,131,133,135,137,138,140,142,
     144,146,148,150,152,154,156,158,160,162,164,167,169,171,173,175,
     177,180,182,184,186,189,191,193,196,198,200,203,205,208,210,213,
     215,218,220,223,225,228,231,233,236,239,241,244,247,249,252,255 >>

(* ------------------------------------------------------------------ *)
(* Bounds of the model                                                 *)
(* ------------------------------------------------------------------ *)

\* The colours the foreground passes to pixel_setRGB / pixel_SetAllRGB are
\* the first NumColours entries of Palette.
NumColours == 2

\* pixel_setRGB is called for the pixels 0..MaxSetPixel (pixel_SetAllRGB
\* and pixel_enable write all six).
MaxSetPixel == 1

Palette ==
  << <<0, 0, 0>>, <<255, 200, 128>>, <<255, 0, 0>>, <<0, 0, 255>>,
     <<0, 255, 0>>, <<1, 1, 1>>, <<128, 128, 128>> >>

Min(a, b) == IF a < b THEN a ELSE b

Colours == { Palette[i] : i \in 1..Min(NumColours, Len(Palette)) }

SetPixels == 0..Min(MaxSetPixel, PIXEL_COUNT - 1)

Pixels == 0..(PIXEL_COUNT - 1)

(* ------------------------------------------------------------------ *)
(* State                                                               *)
(* ------------------------------------------------------------------ *)

VARIABLES
  rawValueR, rawValueG, rawValueB,  \* the pixel colour store
  currentPixel, phase,              \* the sequencer
  PIXEL_PORT, PIXEL_DDR,            \* anode lines, index 0..5
  BLUE_SINK_PORT, BLUE_SINK_DDR,    \* charge pump sink (low = charging)
  OCR0A, OCR0B, OCR2B,              \* compare registers as written
  TCCR0A, TCCR0B, TCCR2A, TCCR2B,   \* timer control registers
  TIMSK0,                           \* overflow interrupt mask
  isrPc,                            \* position of the overflow handler
  fgOp, fgPc, fgP, fgRGB,           \* foreground call, position, arguments
  hist,                             \* overflows since power-up (see below)
  saved,                            \* colour store at the last pixel_disable
  fgIsr,                            \* an overflow was serviced in this enable
  isrIn,                            \* <<phase, currentPixel>> at handler entry
  eff0A, eff0B, eff2B,              \* compare values in effect (see below)
  seen,                             \* store values read in this pixel cycle
  fgOld,                            \* colour store at the entry of a mapper call
  nest,                             \* interrupted handlers (see SpecNested)
  previousPixel,                    \* older revision: pixel lit on last pass
  track                             \* older revision: history (see SpecOld)

vars ==
  << rawValueR, rawValueG, rawValueB, currentPixel, phase, PIXEL_PORT,
     PIXEL_DDR, BLUE_SINK_PORT, BLUE_SINK_DDR, OCR0A, OCR0B, OCR2B, TCCR0A,
     TCCR0B, TCCR2A, TCCR2B, TIMSK0, isrPc, fgOp, fgPc, fgP, fgRGB, hist,
     saved, fgIsr, isrIn, eff0A, eff0B, eff2B, seen,
     fgOld, nest, previousPixel, track >>

\* The state as one record, so that every statement is a function on states.
State ==
  [ rawValueR |-> rawValueR, rawValueG |-> rawValueG, rawValueB |-> rawValueB,
    currentPixel |-> currentPixel, phase |-> phase,
    PIXEL_PORT |-> PIXEL_PORT, PIXEL_DDR |-> PIXEL_DDR,
    BLUE_SINK_PORT |-> BLUE_SINK_PORT, BLUE_SINK_DDR |-> BLUE_SINK_DDR,
    OCR0A |-> OCR0A, OCR0B |-> OCR0B, OCR2B |-> OCR2B,
    TCCR0A |-> TCCR0A, TCCR0B |-> TCCR0B, TCCR2A |-> TCCR2A, TCCR2B |-> TCCR2B,
    TIMSK0 |-> TIMSK0, isrPc |-> isrPc,
    fgOp |-> fgOp, fgPc |-> fgPc, fgP |-> fgP, fgRGB |-> fgRGB,
    hist |-> hist, saved |-> saved, fgIsr |-> fgIsr, isrIn |-> isrIn,
    eff0A |-> eff0A, eff0B |-> eff0B, eff2B |-> eff2B,
    seen |-> seen, fgOld |-> fgOld, nest |-> nest,
    previousPixel |-> previousPixel, track |-> track ]

Install(s) ==
  /\ rawValueR' = s.rawValueR
  /\ rawValueG' = s.rawValueG
  /\ rawValueB' = s.rawValueB
  /\ currentPixel' = s.currentPixel
  /\ phase' = s.phase
  /\ PIXEL_PORT' = s.PIXEL_PORT
  /\ PIXEL_DDR' = s.PIXEL_DDR
  /\ BLUE_SINK_PORT' = s.BLUE_SINK_PORT
  /\ BLUE_SINK_DDR' = s.BLUE_SINK_DDR
  /\ OCR0A' = s.OCR0A
  /\ OCR0B' = s.OCR0B
  /\ OCR2B' = s.OCR2B
  /\ TCCR0A' = s.TCCR0A
  /\ TCCR0B' = s.TCCR0B
  /\ TCCR2A' = s.TCCR2A
  /\ TCCR2B' = s.TCCR2B
  /\ TIMSK0' = s.TIMSK0
  /\ isrPc' = s.isrPc
  /\ fgOp' = s.fgOp
  /\ fgPc' = s.fgPc
  /\ fgP' = s.fgP
  /\ fgRGB' = s.fgRGB
  /\ hist' = s.hist
  /\ saved' = s.saved
  /\ fgIsr' = s.fgIsr
  /\ isrIn' = s.isrIn
  /\ eff0A' = s.eff0A
  /\ eff0B' = s.eff0B
  /\ eff2B' = s.eff2B
  /\ seen' = s.seen
  /\ fgOld' = s.fgOld
  /\ nest' = s.nest
  /\ previousPixel' = s.previousPixel
  /\ track' = s.track

\* hist counts the overflows serviced since power-up in windows of
\* PHASE_COUNT * PIXEL_COUNT, the frame callbacks made in the current window
\* and the (pixel, phase) pair the last handler worked on.  It is given up
\* (ok = FALSE) at the first pixel_disable: it describes the fault-free
\* clock with no disable in between.
NoHist == [ok |-> FALSE, ticks |-> 0, calls |-> 0, pair |-> <<>>]

NoSave == <<>>

AllPixels(v) == [i \in Pixels |-> v]

Init ==
  /\ rawValueR = AllPixels(0)
  /\ rawValueG = AllPixels(0)
  /\ rawValueB = AllPixels(0)
  /\ currentPixel = 0
  /\ phase = 0
  /\ PIXEL_PORT = AllPixels(0)
  /\ PIXEL_DDR = AllPixels(0)
  /\ BLUE_SINK_PORT = 0
  /\ BLUE_SINK_DDR = 0
  /\ OCR0A = 0
  /\ OCR0B = 0
  /\ OCR2B = 0
  /\ TCCR0A = 0
  /\ TCCR0B = 0
  /\ TCCR2A = 0
  /\ TCCR2B = 0
  /\ TIMSK0 = 0
  /\ isrPc = "idle"
  /\ fgOp = "none"
  /\ fgPc = "idle"
  /\ fgP = 0
  /\ fgRGB = <<0, 0, 0>>
  /\ hist = [ok |-> TRUE, ticks |-> 0, calls |-> 0, pair |-> <<>>]
  /\ saved = NoSave
  /\ fgIsr = FALSE
  /\ isrIn = <<>>
  /\ eff0A = 0
  /\ eff0B = 0
  /\ eff2B = 0
  /\ seen = <<>>
  /\ fgOld = <<>>
  /\ nest = [stack |-> <<>>, count |-> 0, junk |-> 0]
  /\ previousPixel = 0
  /\ track = [since |-> 0, disabled |-> FALSE]

(* ------------------------------------------------------------------ *)
(* Compare registers                                                   *)
(* ------------------------------------------------------------------ *)

\* The handler relies on the compare registers being double buffered
\* ("OCR PWM values only get loaded from buffers at overflow by the AVR").
\* OCR0A, OCR0B and OCR2B are the values as written; eff0A, eff0B and eff2B
\* are the values the waveform generators compare against.  While a timer's
\* waveform mode is PWM a write reaches the buffer only and takes effect at
\* that timer's next overflow; in normal mode (TCCRnA = 0) there is no
\* buffering and the write takes effect at once.  Changing the mode does
\* not by itself change the value in effect.
Pwm0(s) == s.TCCR0A = TCCR0A_PWM

Pwm2(s) == s.TCCR2A = TCCR2A_PWM

SetOCR0A(s, v) ==
  [s EXCEPT !.OCR0A = v, !.eff0A = IF Pwm0(s) THEN @ ELSE v]

SetOCR0B(s, v) ==
  [s EXCEPT !.OCR0B = v, !.eff0B = IF Pwm0(s) THEN @ ELSE v]

SetOCR2B(s, v) ==
  [s EXCEPT !.OCR2B = v, !.eff2B = IF Pwm2(s) THEN @ ELSE v]

Timer0Running(s) == s.TCCR0B # 0

Timer2Running(s) == s.TCCR2B # 0

\* An overflow of a running timer in PWM mode loads its buffered values.
Overflow0(s) ==
  IF Timer0Running(s) /\ Pwm0(s)
    THEN [s EXCEPT !.eff0A = s.OCR0A, !.eff0B = s.OCR0B]
    ELSE s

Overflow2(s) ==
  IF Timer2Running(s) /\ Pwm2(s) THEN [s EXCEPT !.eff2B = s.OCR2B] ELSE s

(* ------------------------------------------------------------------ *)
(* Pins                                                                *)
(* ------------------------------------------------------------------ *)

Byte(x) == x % 256

\* An anode sources current when its line is an output driven high.
AnodeActive(s, i) == s.PIXEL_DDR[i] = 1 /\ s.PIXEL_PORT[i] = 1

ActiveAnodes(s) == { i \in Pixels : AnodeActive(s, i) }

\* The pump sink is active low: it charges when it is an output driven low.
PumpCharging(s) == s.BLUE_SINK_DDR = 1 /\ s.BLUE_SINK_PORT = 0

setupPixelPins(s) ==
  [s EXCEPT !.PIXEL_DDR = AllPixels(1),
            !.BLUE_SINK_PORT = 1,
            !.BLUE_SINK_DDR = 1]

setupTimers_startsClock(s) ==
  [s EXCEPT !.TIMSK0 = TOIE0_MASK, !.TCCR0B = CS01_MASK]

setupTimers(s) == [s EXCEPT !.TIMSK0 = TOIE0_MASK]

activateAnode_nextLine(s, line) ==
  IF line \in Pixels
    THEN [s EXCEPT !.PIXEL_PORT[(line + 1) % PIXEL_COUNT] = 1]
    ELSE s

activateAnode_notLine0(s, line) ==
  IF line \in Pixels \ {0} THEN [s EXCEPT !.PIXEL_PORT[line] = 1] ELSE s

activateAnode(s, line) ==
  IF line \in Pixels THEN [s EXCEPT !.PIXEL_PORT[line] = 1] ELSE s

\* Variant: the last anode line is left out of the list.
deactivateAnodes_skipLast(s) ==
  [s EXCEPT !.PIXEL_PORT =
              [i \in Pixels |-> IF i = PIXEL_COUNT - 1 THEN @[i] ELSE 0]]

deactivateAnodes(s) == [s EXCEPT !.PIXEL_PORT = AllPixels(0)]

(* ------------------------------------------------------------------ *)
(* The overflow handler, one statement per step                        *)
(* ------------------------------------------------------------------ *)

\* CALLBACK_PIXEL_FRAME::invokeCallback(): runs pixel_callback_onFrame (an
\* empty weak function) once; the model counts the invocations.
invokeCallback(s) ==
  IF s.hist.ok THEN [s EXCEPT !.hist.calls = @ + 1] ELSE s

\* The handler of phase ph returns: the overflow has been serviced.
\* seen lists, for the pixel cycle in progress, the values the handler has
\* read from the colour store, as <<channel, value>> in the order read.  It
\* starts at the blue test of case 0 and is dropped after the last read of
\* the cycle (when case 3 returns).  Like hist it is kept only up to the
\* first pixel_disable.
RawValue(s, ch) ==
  CASE ch = "R" -> s.rawValueR
    [] ch = "G" -> s.rawValueG
    [] ch = "B" -> s.rawValueB

\* rawValueX[currentPixel].  An index past the end of the array (possible
\* only when handlers nest, see SpecNested) reads whatever byte lies there.
ReadRaw(s, ch) ==
  IF s.currentPixel \in Pixels THEN RawValue(s, ch)[s.currentPixel]
                               ELSE s.nest.junk

SawFirst(s) ==
  IF s.hist.ok
    THEN [s EXCEPT !.seen = << <<"B", ReadRaw(s, "B")>> >>]
    ELSE s

Saw(s, ch) ==
  [s EXCEPT !.seen = IF @ = <<>>
                       THEN @
                       ELSE Append(@, <<ch, ReadRaw(s, ch)>>)]

IsrReturn(s, ph) ==
  [s EXCEPT !.isrPc = "idle",
            !.seen = IF ph = 3 THEN <<>> ELSE @,
            !.hist = IF @.ok
                       THEN [@ EXCEPT !.ticks = @ + 1,
                                      !.pair = <<s.currentPixel, ph>>]
                       ELSE @]

\* Variant: charging starts for every pixel, whatever its stored blue value.
isr_case0_alwaysCharge(s) ==
  CASE s.isrPc = "p0_deact" ->
         [deactivateAnodes(s) EXCEPT !.isrPc = "p0_inc"]
    [] s.isrPc = "p0_inc" ->
         [s EXCEPT !.currentPixel = Byte(@ + 1), !.isrPc = "p0_wrap"]
    [] s.isrPc = "p0_wrap" ->
         [s EXCEPT !.currentPixel = IF @ = PIXEL_COUNT THEN 0 ELSE @,
                   !.isrPc = "p0_blue"]
    [] s.isrPc = "p0_blue" ->
         [s EXCEPT !.BLUE_SINK_PORT = 0, !.isrPc = "p0_phase"]
    [] s.isrPc = "p0_phase" ->
         IsrReturn([s EXCEPT !.phase = Byte(@ + 1)], 0)

\* Variant: the pixel index wraps one pixel early.
isr_case0_wrapEarly(s) ==
  CASE s.isrPc = "p0_deact" ->
         [deactivateAnodes(s) EXCEPT !.isrPc = "p0_inc"]
    [] s.isrPc = "p0_inc" ->
         [s EXCEPT !.currentPixel = Byte(@ + 1), !.isrPc = "p0_wrap"]
    [] s.isrPc = "p0_wrap" ->
         [s EXCEPT !.currentPixel = IF @ = PIXEL_COUNT - 1 THEN 0 ELSE @,
                   !.isrPc = "p0_blue"]
    [] s.isrPc = "p0_blue" ->
         [SawFirst(s) EXCEPT !.BLUE_SINK_PORT =
                      IF ReadRaw(s, "B") # OFF THEN 0 ELSE @,
                   !.isrPc = "p0_phase"]
    [] s.isrPc = "p0_phase" ->
         IsrReturn([s EXCEPT !.phase = Byte(@ + 1)], 0)

isr_case0(s) ==
  CASE s.isrPc = "p0_deact" ->
         [deactivateAnodes(s) EXCEPT !.isrPc = "p0_inc"]
    [] s.isrPc = "p0_inc" ->
         [s EXCEPT !.currentPixel = Byte(@ + 1), !.isrPc = "p0_wrap"]
    [] s.isrPc = "p0_wrap" ->
         [s EXCEPT !.currentPixel = IF @ = PIXEL_COUNT THEN 0 ELSE @,
                   !.isrPc = "p0_blue"]
    [] s.isrPc = "p0_blue" ->
         [SawFirst(s) EXCEPT !.BLUE_SINK_PORT =
                      IF ReadRaw(s, "B") # OFF THEN 0 ELSE @,
                   !.isrPc = "p0_phase"]
    [] s.isrPc = "p0_phase" ->
         IsrReturn([s EXCEPT !.phase = Byte(@ + 1)], 0)

\* Variant: the blue duty is not written by the phase-1 handler.
isr_case1_noBlue(s) ==
  CASE s.isrPc = "p1_sink" ->
         [s EXCEPT !.BLUE_SINK_PORT = 1, !.isrPc = "p1_anode"]
    [] s.isrPc = "p1_anode" ->
         [activateAnode(s, s.currentPixel) EXCEPT !.isrPc = "p1_OCR2B"]
    [] s.isrPc = "p1_OCR2B" ->
         [s EXCEPT !.isrPc = "p1_phase"]
    [] s.isrPc = "p1_phase" ->
         IsrReturn([s EXCEPT !.phase = Byte(@ + 1)], 1)

\* Variant: the anode is activated before the sink is returned to idle.
isr_case1_anodeFirst(s) ==
  CASE s.isrPc = "p1_sink" ->
         [activateAnode(s, s.currentPixel) EXCEPT !.isrPc = "p1_anode"]
    [] s.isrPc = "p1_anode" ->
         [s EXCEPT !.BLUE_SINK_PORT = 1, !.isrPc = "p1_OCR2B"]
    [] s.isrPc = "p1_OCR2B" ->
         [SetOCR2B(Saw(s, "B"), ReadRaw(s, "B")) EXCEPT
                   !.isrPc = "p1_phase"]
    [] s.isrPc = "p1_phase" ->
         IsrReturn([s EXCEPT !.phase = Byte(@ + 1)], 1)

isr_case1(s) ==
  CASE s.isrPc = "p1_sink" ->
         [s EXCEPT !.BLUE_SINK_PORT = 1, !.isrPc = "p1_anode"]
    [] s.isrPc = "p1_anode" ->
         [activateAnode(s, s.currentPixel) EXCEPT !.isrPc = "p1_OCR2B"]
    [] s.isrPc = "p1_OCR2B" ->
         [SetOCR2B(Saw(s, "B"), ReadRaw(s, "B")) EXCEPT
                   !.isrPc = "p1_phase"]
    [] s.isrPc = "p1_phase" ->
         IsrReturn([s EXCEPT !.phase = Byte(@ + 1)], 1)

\* Variant: the phase-2 handler does not write blue off.
isr_case2_blueStaysOn(s) ==
  CASE s.isrPc = "p2_OCR2B" ->
         [s EXCEPT !.isrPc = "p2_OCR0A"]
    [] s.isrPc = "p2_OCR0A" ->
         [SetOCR0A(Saw(s, "R"), ReadRaw(s, "R")) EXCEPT
                   !.isrPc = "p2_phase"]
    [] s.isrPc = "p2_phase" ->
         IsrReturn([s EXCEPT !.phase = Byte(@ + 1)], 2)

isr_case2(s) ==
  CASE s.isrPc = "p2_OCR2B" ->
         [SetOCR2B(s, OFF) EXCEPT !.isrPc = "p2_OCR0A"]
    [] s.isrPc = "p2_OCR0A" ->
         [SetOCR0A(Saw(s, "R"), ReadRaw(s, "R")) EXCEPT
                   !.isrPc = "p2_phase"]
    [] s.isrPc = "p2_phase" ->
         IsrReturn([s EXCEPT !.phase = Byte(@ + 1)], 2)

isr_case3(s) ==
  CASE s.isrPc = "p3_OCR0A" ->
         [SetOCR0A(s, OFF) EXCEPT !.isrPc = "p3_OCR0B"]
    [] s.isrPc = "p3_OCR0B" ->
         [SetOCR0B(Saw(s, "G"), ReadRaw(s, "G")) EXCEPT
                   !.isrPc = "p3_phase"]
    [] s.isrPc = "p3_phase" ->
         IsrReturn([s EXCEPT !.phase = Byte(@ + 1)], 3)

\* Variant: the last phase increments phase instead of wrapping it.
isr_case4_noWrap(s) ==
  CASE s.isrPc = "p4_OCR0B" ->
         [SetOCR0B(s, OFF) EXCEPT !.isrPc = "p4_phase"]
    [] s.isrPc = "p4_phase" ->
         [s EXCEPT !.phase = Byte(@ + 1), !.isrPc = "p4_callback"]
    [] s.isrPc = "p4_callback" ->
         IsrReturn(invokeCallback(s), 4)

isr_case4_callbackFirst(s) ==
  CASE s.isrPc = "p4_OCR0B" ->
         [SetOCR0B(s, OFF) EXCEPT !.isrPc = "p4_callback"]
    [] s.isrPc = "p4_callback" ->
         [invokeCallback(s) EXCEPT !.isrPc = "p4_phase"]
    [] s.isrPc = "p4_phase" ->
         IsrReturn([s EXCEPT !.phase = 0], 4)

isr_case4(s) ==
  CASE s.isrPc = "p4_OCR0B" ->
         [SetOCR0B(s, OFF) EXCEPT !.isrPc = "p4_phase"]
    [] s.isrPc = "p4_phase" ->
         [s EXCEPT !.phase = 0, !.isrPc = "p4_callback"]
    [] s.isrPc = "p4_callback" ->
         IsrReturn(invokeCallback(s), 4)

\* sei(); switch (phase) { ... }: a phase outside 0..4 matches no case.
isr_switch(s) ==
  CASE s.phase = 0 -> [s EXCEPT !.isrPc = "p0_deact"]
    [] s.phase = 1 -> [s EXCEPT !.isrPc = "p1_sink"]
    [] s.phase = 2 -> [s EXCEPT !.isrPc = "p2_OCR2B"]
    [] s.phase = 3 -> [s EXCEPT !.isrPc = "p3_OCR0A"]
    [] s.phase = 4 -> [s EXCEPT !.isrPc = "p4_OCR0B"]
    [] OTHER -> IsrReturn(s, s.phase)

Case0Pcs == {"p0_deact", "p0_inc", "p0_wrap", "p0_blue", "p0_phase"}

Case1Pcs == {"p1_sink", "p1_anode", "p1_OCR2B", "p1_phase"}

Case2Pcs == {"p2_OCR2B", "p2_OCR0A", "p2_phase"}

Case3Pcs == {"p3_OCR0A", "p3_OCR0B", "p3_phase"}

Case4Pcs == {"p4_OCR0B", "p4_phase", "p4_callback"}

pixel_isr(s) ==
  CASE s.isrPc = "sei" -> isr_switch(s)
    [] s.isrPc \in Case0Pcs -> isr_case0(s)
    [] s.isrPc \in Case1Pcs -> isr_case1(s)
    [] s.isrPc \in Case2Pcs -> isr_case2(s)
    [] s.isrPc \in Case3Pcs -> isr_case3(s)
    [] s.isrPc \in Case4Pcs -> isr_case4(s)

\* The overflow interrupt is taken: Timer0 is clocked, its overflow
\* interrupt is enabled and no handler is running.  Timer2 is started just
\* after Timer0 with the same prescaler and top, so when it is running it
\* overflows with Timer0, before the handler's first write.
OverflowEntry(s) ==
  [Overflow2(Overflow0(s)) EXCEPT !.isrPc = "sei",
            !.isrIn = <<s.phase, s.currentPixel>>,
            !.fgIsr = (s.fgOp = "enable"),
            !.hist = IF @.ok /\ @.ticks = PHASE_COUNT * PIXEL_COUNT
                       THEN [@ EXCEPT !.ticks = 0, !.calls = 0]
                       ELSE @]

(* ------------------------------------------------------------------ *)
(* The foreground, one statement per step                              *)
(* ------------------------------------------------------------------ *)

\* rawValue = 255 - (gamma8[x] / d), in 8-bit arithmetic
\* Variant: the gamma value is multiplied by the channel constant instead of
\* divided, so the 8-bit result wraps.
Duty_multiplies(x, d) == Byte(OFF - (gamma8[x + 1] * d))

Duty_roundsUp(x, d) == Byte(OFF - (gamma8[x + 1] \div d) + 1)

Duty(x, d) == Byte(OFF - (gamma8[x + 1] \div d))

Store(s) == <<s.rawValueR, s.rawValueG, s.rawValueB>>

\* After the body of pixel_setRGB: return to the caller.  pixel_SetAllRGB
\* (FOREACH_FACE) steps to the next pixel; pixel_enable goes on with
\* pixelTimersOn when the loop is over.
AfterSetRGB(s) ==
  CASE s.fgOp = "setRGB" -> [s EXCEPT !.fgPc = "ret"]
    [] s.fgP + 1 < PIXEL_COUNT -> [s EXCEPT !.fgP = @ + 1, !.fgPc = "set_R"]
    [] s.fgOp = "enable" -> [s EXCEPT !.fgP = 0, !.fgPc = "on_OCR0A"]
    [] OTHER -> [s EXCEPT !.fgP = 0, !.fgPc = "ret"]

\* Variant: the blue entry is not written.
pixel_setRGB_noBlue(s) ==
  CASE s.fgPc = "set_R" ->
         [s EXCEPT !.rawValueR[s.fgP] = Duty(s.fgRGB[1], DIV_R),
                   !.fgPc = "set_G"]
    [] s.fgPc = "set_G" ->
         [s EXCEPT !.rawValueG[s.fgP] = Duty(s.fgRGB[2], DIV_G),
                   !.fgPc = "set_B"]
    [] s.fgPc = "set_B" -> AfterSetRGB(s)

\* Variant: a new value is stored only where it is brighter than the old.
pixel_setRGB_blend(s) ==
  CASE s.fgPc = "set_R" ->
         [s EXCEPT !.rawValueR[s.fgP] = Min(@, Duty(s.fgRGB[1], DIV_R)),
                   !.fgPc = "set_G"]
    [] s.fgPc = "set_G" ->
         [s EXCEPT !.rawValueG[s.fgP] = Min(@, Duty(s.fgRGB[2], DIV_G)),
                   !.fgPc = "set_B"]
    [] s.fgPc = "set_B" ->
         AfterSetRGB([s EXCEPT !.rawValueB[s.fgP] =
                                  Min(@, Duty(s.fgRGB[3], DIV_B))])

\* Variant: the blue entry is written one pixel further on.
pixel_setRGB_nextPixel(s) ==
  CASE s.fgPc = "set_R" ->
         [s EXCEPT !.rawValueR[s.fgP] = Duty(s.fgRGB[1], DIV_R),
                   !.fgPc = "set_G"]
    [] s.fgPc = "set_G" ->
         [s EXCEPT !.rawValueG[s.fgP] = Duty(s.fgRGB[2], DIV_G),
                   !.fgPc = "set_B"]
    [] s.fgPc = "set_B" ->
         AfterSetRGB([s EXCEPT !.rawValueB[(s.fgP + 1) % PIXEL_COUNT] =
                                  Duty(s.fgRGB[3], DIV_B)])

pixel_setRGB_blueThird(s) ==
  CASE s.fgPc = "set_R" ->
         [s EXCEPT !.rawValueR[s.fgP] = Duty(s.fgRGB[1], DIV_R),
                   !.fgPc = "set_G"]
    [] s.fgPc = "set_G" ->
         [s EXCEPT !.rawValueG[s.fgP] = Duty(s.fgRGB[2], DIV_G),
                   !.fgPc = "set_B"]
    [] s.fgPc = "set_B" ->
         AfterSetRGB([s EXCEPT !.rawValueB[s.fgP] = Duty(s.fgRGB[3], DIV_R)])

pixel_setRGB(s) ==
  CASE s.fgPc = "set_R" ->
         [s EXCEPT !.rawValueR[s.fgP] = Duty(s.fgRGB[1], DIV_R),
                   !.fgPc = "set_G"]
    [] s.fgPc = "set_G" ->
         [s EXCEPT !.rawValueG[s.fgP] = Duty(s.fgRGB[2], DIV_G),
                   !.fgPc = "set_B"]
    [] s.fgPc = "set_B" ->
         AfterSetRGB([s EXCEPT !.rawValueB[s.fgP] = Duty(s.fgRGB[3], DIV_B)])

pixel_SetAllRGB(s) == pixel_setRGB(s)

SetPcs == {"set_R", "set_G", "set_B"}

\* Variant: the blue compare register is not written before the clocks are
\* started.
pixelTimersOn_blueNotParked(s) ==
  CASE s.fgPc = "on_OCR0A" -> [SetOCR0A(s, OFF) EXCEPT !.fgPc = "on_OCR0B"]
    [] s.fgPc = "on_OCR0B" -> [SetOCR0B(s, OFF) EXCEPT !.fgPc = "on_FOC0A"]
    [] s.fgPc = "on_FOC0A" -> [s EXCEPT !.fgPc = "on_FOC0B"]
    [] s.fgPc = "on_FOC0B" -> [s EXCEPT !.fgPc = "on_TCCR0A"]
    [] s.fgPc = "on_TCCR0A" ->
         [s EXCEPT !.TCCR0A = TCCR0A_PWM, !.fgPc = "on_TCCR2A"]
    [] s.fgPc = "on_TCCR2A" ->
         [s EXCEPT !.TCCR2A = TCCR2A_PWM, !.fgPc = "on_OCR2B"]
    [] s.fgPc = "on_OCR2B" -> [s EXCEPT !.fgPc = "on_FOC2B"]
    [] s.fgPc = "on_FOC2B" -> [s EXCEPT !.fgPc = "on_TCCR0B"]
    [] s.fgPc = "on_TCCR0B" ->
         [s EXCEPT !.TCCR0B = CS01_MASK, !.fgPc = "on_TCCR2B"]
    [] s.fgPc = "on_TCCR2B" ->
         [s EXCEPT !.TCCR2B = CS21_MASK, !.fgPc = "ret"]

\* Variant: pixelTimersOn also restarts the sequencer.
pixelTimersOn_resetsSequencer(s) ==
  CASE s.fgPc = "on_OCR0A" ->
         [SetOCR0A(s, OFF) EXCEPT !.phase = 0, !.currentPixel = 0,
                   !.fgPc = "on_OCR0B"]
    [] s.fgPc = "on_OCR0B" -> [SetOCR0B(s, OFF) EXCEPT !.fgPc = "on_FOC0A"]
    [] s.fgPc = "on_FOC0A" -> [s EXCEPT !.fgPc = "on_FOC0B"]
    [] s.fgPc = "on_FOC0B" -> [s EXCEPT !.fgPc = "on_TCCR0A"]
    [] s.fgPc = "on_TCCR0A" ->
         [s EXCEPT !.TCCR0A = TCCR0A_PWM, !.fgPc = "on_TCCR2A"]
    [] s.fgPc = "on_TCCR2A" ->
         [s EXCEPT !.TCCR2A = TCCR2A_PWM, !.fgPc = "on_OCR2B"]
    [] s.fgPc = "on_OCR2B" -> [SetOCR2B(s, OFF) EXCEPT !.fgPc = "on_FOC2B"]
    [] s.fgPc = "on_FOC2B" -> [s EXCEPT !.fgPc = "on_TCCR0B"]
    [] s.fgPc = "on_TCCR0B" ->
         [s EXCEPT !.TCCR0B = CS01_MASK, !.fgPc = "on_TCCR2B"]
    [] s.fgPc = "on_TCCR2B" ->
         [s EXCEPT !.TCCR2B = CS21_MASK, !.fgPc = "ret"]

\* SBI(TCCRnB, FOCnx): the force-output-compare bits are strobes that read
\* as zero, so the register keeps its clock-select bits.
pixelTimersOn_redNotParked(s) ==
  CASE s.fgPc = "on_OCR0A" -> [s EXCEPT !.fgPc = "on_OCR0B"]
    [] s.fgPc = "on_OCR0B" -> [SetOCR0B(s, OFF) EXCEPT !.fgPc = "on_FOC0A"]
    [] s.fgPc = "on_FOC0A" -> [s EXCEPT !.fgPc = "on_FOC0B"]
    [] s.fgPc = "on_FOC0B" -> [s EXCEPT !.fgPc = "on_TCCR0A"]
    [] s.fgPc = "on_TCCR0A" ->
         [s EXCEPT !.TCCR0A = TCCR0A_PWM, !.fgPc = "on_TCCR2A"]
    [] s.fgPc = "on_TCCR2A" ->
         [s EXCEPT !.TCCR2A = TCCR2A_PWM, !.fgPc = "on_OCR2B"]
    [] s.fgPc = "on_OCR2B" -> [SetOCR2B(s, OFF) EXCEPT !.fgPc = "on_FOC2B"]
    [] s.fgPc = "on_FOC2B" -> [s EXCEPT !.fgPc = "on_TCCR0B"]
    [] s.fgPc = "on_TCCR0B" ->
         [s EXCEPT !.TCCR0B = CS01_MASK, !.fgPc = "on_TCCR2B"]
    [] s.fgPc = "on_TCCR2B" ->
         [s EXCEPT !.TCCR2B = CS21_MASK, !.fgPc = "ret"]

pixelTimersOn(s) ==
  CASE s.fgPc = "on_OCR0A" -> [SetOCR0A(s, OFF) EXCEPT !.fgPc = "on_OCR0B"]
    [] s.fgPc = "on_OCR0B" -> [SetOCR0B(s, OFF) EXCEPT !.fgPc = "on_FOC0A"]
    [] s.fgPc = "on_FOC0A" -> [s EXCEPT !.fgPc = "on_FOC0B"]
    [] s.fgPc = "on_FOC0B" -> [s EXCEPT !.fgPc = "on_TCCR0A"]
    [] s.fgPc = "on_TCCR0A" ->
         [s EXCEPT !.TCCR0A = TCCR0A_PWM, !.fgPc = "on_TCCR2A"]
    [] s.fgPc = "on_TCCR2A" ->
         [s EXCEPT !.TCCR2A = TCCR2A_PWM, !.fgPc = "on_OCR2B"]
    [] s.fgPc = "on_OCR2B" -> [SetOCR2B(s, OFF) EXCEPT !.fgPc = "on_FOC2B"]
    [] s.fgPc = "on_FOC2B" -> [s EXCEPT !.fgPc = "on_TCCR0B"]
    [] s.fgPc = "on_TCCR0B" ->
         [s EXCEPT !.TCCR0B = CS01_MASK, !.fgPc = "on_TCCR2B"]
    [] s.fgPc = "on_TCCR2B" ->
         [s EXCEPT !.TCCR2B = CS21_MASK, !.fgPc = "ret"]

\* Variant: pixel_enable without the initial pixel_SetAllRGB( 0 , 0 , 0 ).
pixel_enable_noClear(s) ==
  IF s.fgPc \in SetPcs THEN [s EXCEPT !.fgPc = "on_OCR0A"]
                       ELSE pixelTimersOn(s)

pixel_enable(s) ==
  IF s.fgPc \in SetPcs THEN pixel_SetAllRGB(s) ELSE pixelTimersOn(s)

\* The rest of pixelTimerOff, shared by the variants below.
TimerOffTail(s) ==
  CASE s.fgPc = "off_TCCR2B" -> [s EXCEPT !.TCCR2B = 0, !.fgPc = "off_TCCR0A"]
    [] s.fgPc = "off_TCCR0A" -> [s EXCEPT !.TCCR0A = 0, !.fgPc = "off_TCCR2A"]
    [] s.fgPc = "off_TCCR2A" -> [s EXCEPT !.TCCR2A = 0, !.fgPc = "ret"]

\* Variant: only Timer2 is stopped, Timer0 keeps running.
pixelTimerOff_timer2Only(s) ==
  CASE s.fgPc = "off_TCCR0B" -> [s EXCEPT !.TCCR2B = 0, !.fgPc = "off_anodes"]
    [] s.fgPc = "off_anodes" ->
         [deactivateAnodes(s) EXCEPT !.fgPc = "off_sink"]
    [] s.fgPc = "off_sink" ->
         [s EXCEPT !.BLUE_SINK_PORT = 1, !.fgPc = "off_TCCR2B"]
    [] OTHER -> TimerOffTail(s)

\* Variant: the anodes and the sink are written before the clock is stopped.
pixelTimerOff_anodesFirst(s) ==
  CASE s.fgPc = "off_TCCR0B" ->
         [deactivateAnodes(s) EXCEPT !.fgPc = "off_anodes"]
    [] s.fgPc = "off_anodes" ->
         [s EXCEPT !.BLUE_SINK_PORT = 1, !.fgPc = "off_sink"]
    [] s.fgPc = "off_sink" -> [s EXCEPT !.TCCR0B = 0, !.fgPc = "off_TCCR2B"]
    [] OTHER -> TimerOffTail(s)

\* Variant: the sink is toggled (a write to the PIN register) instead of set.
pixelTimerOff_toggleSink(s) ==
  CASE s.fgPc = "off_TCCR0B" -> [s EXCEPT !.TCCR0B = 0, !.fgPc = "off_anodes"]
    [] s.fgPc = "off_anodes" ->
         [deactivateAnodes(s) EXCEPT !.fgPc = "off_sink"]
    [] s.fgPc = "off_sink" ->
         [s EXCEPT !.BLUE_SINK_PORT = 1 - @, !.fgPc = "off_TCCR2B"]
    [] OTHER -> TimerOffTail(s)

\* Variant: stopping the timers also rewinds the sequencer.
pixelTimerOff_rewinds(s) ==
  CASE s.fgPc = "off_TCCR0B" ->
         [s EXCEPT !.TCCR0B = 0, !.phase = 0, !.fgPc = "off_anodes"]
    [] s.fgPc = "off_anodes" ->
         [deactivateAnodes(s) EXCEPT !.fgPc = "off_sink"]
    [] s.fgPc = "off_sink" ->
         [s EXCEPT !.BLUE_SINK_PORT = 1, !.fgPc = "off_TCCR2B"]
    [] OTHER -> TimerOffTail(s)

pixelTimerOff(s) ==
  CASE s.fgPc = "off_TCCR0B" -> [s EXCEPT !.TCCR0B = 0, !.fgPc = "off_anodes"]
    [] s.fgPc = "off_anodes" ->
         [deactivateAnodes(s) EXCEPT !.fgPc = "off_sink"]
    [] s.fgPc = "off_sink" ->
         [s EXCEPT !.BLUE_SINK_PORT = 1, !.fgPc = "off_TCCR2B"]
    [] s.fgPc = "off_TCCR2B" -> [s EXCEPT !.TCCR2B = 0, !.fgPc = "off_TCCR0A"]
    [] s.fgPc = "off_TCCR0A" -> [s EXCEPT !.TCCR0A = 0, !.fgPc = "off_TCCR2A"]
    [] s.fgPc = "off_TCCR2A" -> [s EXCEPT !.TCCR2A = 0, !.fgPc = "ret"]

pixel_disable(s) == pixelTimerOff(s)

pixel_init(s) == setupTimers(setupPixelPins(s))

\* One statement of the call in progress.
ForegroundStep(s) ==
  CASE s.fgOp = "setRGB" -> pixel_setRGB(s)
    [] s.fgOp = "SetAllRGB" -> pixel_SetAllRGB(s)
    [] s.fgOp = "enable" -> pixel_enable(s)
    [] s.fgOp = "disable" -> pixel_disable(s)

\* Entering a call.  pixel_disable of enabled pixels saves the colour store
\* (which pixel_enable has written in full) for comparison at the following
\* pixel_enable; a colour-setting call in between ends the comparison.
EnterSetRGB(s, p, c) ==
  [s EXCEPT !.fgOp = "setRGB", !.fgPc = "set_R", !.fgP = p, !.fgRGB = c,
            !.saved = NoSave]

EnterSetAllRGB(s, c) ==
  [s EXCEPT !.fgOp = "SetAllRGB", !.fgPc = "set_R", !.fgP = 0, !.fgRGB = c,
            !.saved = NoSave]

\* pixel_enable starts with pixel_SetAllRGB( 0 , 0 , 0 )
EnterEnable(s) ==
  [s EXCEPT !.fgOp = "enable", !.fgPc = "set_R", !.fgP = 0,
            !.fgRGB = <<0, 0, 0>>, !.fgIsr = FALSE]

EnterDisable(s) ==
  [s EXCEPT !.fgOp = "disable", !.fgPc = "off_TCCR0B",
            !.saved = IF Timer0Running(s) THEN Store(s) ELSE @,
            !.seen = <<>>,
            !.hist = NoHist]

LeaveCall(s) ==
  [s EXCEPT !.fgOp = "none", !.fgPc = "idle", !.fgP = 0,
            !.fgRGB = <<0, 0, 0>>, !.fgIsr = FALSE,
            !.saved = IF s.fgOp = "enable" THEN NoSave ELSE @]

(* ------------------------------------------------------------------ *)
(* Actions                                                             *)
(* ------------------------------------------------------------------ *)

Idle == isrPc = "idle" /\ fgPc = "idle"

Initialised == TIMSK0 # 0

\* pixel_init(): one-time hardware setup, before any other entry point.
Init_pixel ==
  /\ Idle
  /\ ~Initialised
  /\ Install(pixel_init(State))

\* TIMER0_OVF_vect is taken.
TIMER0_OVF ==
  /\ isrPc = "idle"
  /\ TIMSK0 = TOIE0_MASK
  /\ Timer0Running(State)
  /\ Install(OverflowEntry(State))

\* Timer2 overflows on its own: pixelTimerOff stops Timer0 a few statements
\* before Timer2, and Timer2 has no interrupt.
TIMER2_OVF ==
  /\ isrPc = "idle"
  /\ Timer2Running(State)
  /\ ~Timer0Running(State)
  /\ Install(Overflow2(State))

\* The handler runs its next statement.
IsrStep ==
  /\ isrPc # "idle"
  /\ Install(pixel_isr(State))

CallSetRGB ==
  /\ Idle
  /\ Initialised
  /\ \E p \in SetPixels, c \in Colours : Install(EnterSetRGB(State, p, c))

CallSetAllRGB ==
  /\ Idle
  /\ Initialised
  /\ \E c \in Colours : Install(EnterSetAllRGB(State, c))

CallEnable ==
  /\ Idle
  /\ Initialised
  /\ Install(EnterEnable(State))

CallDisable ==
  /\ Idle
  /\ Initialised
  /\ Install(EnterDisable(State))

\* The foreground runs its next statement (no handler is running).
FgStep ==
  /\ isrPc = "idle"
  /\ fgPc \notin {"idle", "ret"}
  /\ Install(ForegroundStep(State))

FgReturn ==
  /\ isrPc = "idle"
  /\ fgPc = "ret"
  /\ Install(LeaveCall(State))

\* The colour mapper on its own: after pixel_init and any calls with the
\* colours of the palette, one call of pixel_setRGB or pixel_SetAllRGB with
\* inputs covering 0 .. MaxInput on every channel.  fgOld keeps the store as
\* it was when that call was made.
InputTriples ==
  {<<x, MaxInput - x, (x + 128) % (MaxInput + 1)>> : x \in 0 .. MaxInput}
    \cup {<<x, x, x>> : x \in 0 .. MaxInput}

MapperCall(s) == [s EXCEPT !.fgOld = Store(s)]

PrepareSetRGB == fgOld = <<>> /\ CallSetRGB

PrepareSetAllRGB == fgOld = <<>> /\ CallSetAllRGB

MapSetRGB ==
  /\ Idle
  /\ Initialised
  /\ fgOld = <<>>
  /\ \E p \in Pixels, c \in InputTriples :
       Install(MapperCall(EnterSetRGB(State, p, c)))

MapSetAllRGB ==
  /\ Idle
  /\ Initialised
  /\ fgOld = <<>>
  /\ \E c \in InputTriples : Install(MapperCall(EnterSetAllRGB(State, c)))

NextMapper ==
  \/ Init_pixel
  \/ PrepareSetRGB
  \/ PrepareSetAllRGB
  \/ MapSetRGB
  \/ MapSetAllRGB
  \/ FgStep
  \/ FgReturn

SpecMapper == Init /\ [][NextMapper]_vars

\* ---------------------------------------------------------------------------
\* Nested overflow handlers.  pixel_isr re-enables interrupts on entry (sei),
\* so an overflow that arrives while the handler (or the callback it invokes)
\* is still running interrupts it between two of its statements.  nest.stack
\* holds the interrupted handlers, nest.count the number of nestings so far,
\* nest.junk the byte found past the end of the colour arrays.  Spec never
\* nests (the handler is assumed to finish within its period); SpecNested
\* lifts that assumption for at most MaxNested nestings.
MaxNested == 1

Junk == {0, OFF}

NestedEntry(s, j) ==
  [OverflowEntry(s) EXCEPT
     !.nest = [stack |-> << <<s.isrPc, s.isrIn>> >> \o @.stack,
               count |-> @.count + 1,
               junk  |-> j],
     !.seen = <<>>,
     !.hist = NoHist]

Resume(s) ==
  IF s.isrPc = "idle" /\ s.nest.stack # <<>>
    THEN [s EXCEPT !.isrPc = Head(s.nest.stack)[1],
                   !.isrIn = Head(s.nest.stack)[2],
                   !.nest.stack = Tail(@)]
    ELSE s

NestedOverflow ==
  /\ isrPc \notin {"idle", "sei"}
  /\ TIMSK0 = TOIE0_MASK
  /\ Timer0Running(State)
  /\ nest.count < MaxNested
  /\ \E j \in Junk : Install(NestedEntry(State, j))

IsrStepNested ==
  /\ isrPc # "idle"
  /\ Install(Resume(pixel_isr(State)))

NextNested ==
  \/ Init_pixel
  \/ TIMER0_OVF
  \/ NestedOverflow
  \/ IsrStepNested
  \/ CallSetAllRGB
  \/ CallEnable
  \/ FgStep
  \/ FgReturn

SpecNested == Init /\ [][NextNested]_vars

\* ---------------------------------------------------------------------------
\* The refresh while the pixels stay enabled: pixel_enable is called with
\* the pixels off (after reset or pixel_disable), no pixel_disable is issued, the
\* overflow interrupt is taken whenever it is pending (the timer raises it
\* every period while it is clocked and TOIE0 is set) and a handler that has
\* started runs to its end (it has no loop and nothing blocks it).
EnableFromOff == TCCR0B = 0 /\ CallEnable

NextLive ==
  \/ Init_pixel
  \/ TIMER0_OVF
  \/ IsrStep
  \/ CallSetAllRGB
  \/ EnableFromOff
  \/ FgStep
  \/ FgReturn

SpecLive ==
  /\ Init
  /\ [][NextLive]_vars
  /\ WF_vars(TIMER0_OVF)
  /\ WF_vars(IsrStep)

Next ==
  \/ Init_pixel
  \/ TIMER0_OVF
  \/ TIMER2_OVF
  \/ IsrStep
  \/ CallSetRGB
  \/ CallSetAllRGB
  \/ CallEnable
  \/ CallDisable
  \/ FgStep
  \/ FgReturn

Spec == Init /\ [][Next]_vars

(* ------------------------------------------------------------------ *)
(* Properties                                                          *)
(* ------------------------------------------------------------------ *)

FgMoves == isrPc = "idle" /\ isrPc' = "idle"

StoreAllOff(s) ==
  \A i \in Pixels :
    s.rawValueR[i] = OFF /\ s.rawValueG[i] = OFF /\ s.rawValueB[i] = OFF

\* C1: the blue charge-pump sink is never charging (driven low) while any
\* pixel anode is active, at every statement boundary of the overflow handler
\* and of the foreground calls: charging starts in phase 0 after the anodes
\* were deactivated and the sink is idle again before phase 1 activates the
\* anode.
C1_NoChargeWhileAnodeActive ==
  ~(PumpCharging(State) /\ ActiveAnodes(State) # {})

\* C1 witness: the pump is charging between the phase-0 and the phase-1
\* handler of a pixel with blue content, all anodes inactive, while a
\* foreground call is under way.
C1_Witness ==
  /\ PumpCharging(State)
  /\ ActiveAnodes(State) = {}
  /\ isrPc = "idle"
  /\ phase = 1
  /\ fgOp = "setRGB"

\* C2: at most one of the six anodes is active, in every state after
\* pixel_init, under any interleaving of overflows and foreground calls.
C2_AtMostOneAnode == Cardinality(ActiveAnodes(State)) <= 1

\* C2 witness: the anode of pixel 3 is active while pixel_enable is under way.
C2_Witness == ActiveAnodes(State) = {3} /\ fgOp = "enable" /\ fgPc = "set_G"

\* Index (within the window of 30) of the overflow handled last.
LastTick == (hist.ticks + PHASE_COUNT * PIXEL_COUNT - 1) % (PHASE_COUNT * PIXEL_COUNT)

\* C3 as stated: the n-th overflow after power-up and enable (n = 0, 1, ...)
\* handles pixel (n div 5) mod 6 in phase n mod 5, i.e. the order starts
\* with pixel 0.
C3_StartsAtPixel0 ==
  (hist.ok /\ hist.pair # <<>>) =>
    hist.pair = <<(LastTick \div PHASE_COUNT) % PIXEL_COUNT, LastTick % PHASE_COUNT>>

\* C3 amended: with no disable in between, the n-th overflow handles pixel
\* ((n div 5) + 1) mod 6 in phase n mod 5: round-robin pixel order with the
\* phases 0..4 in order and no pair skipped or repeated, starting with pixel 1
\* (the phase-0 handler steps to the next pixel before it uses the index).
C3_RoundRobinFromPixel1 ==
  (hist.ok /\ hist.pair # <<>>) =>
    hist.pair = <<((LastTick \div PHASE_COUNT) + 1) % PIXEL_COUNT,
                  LastTick % PHASE_COUNT>>

\* C3 witness: a full pass of 30 overflows has been handled, the last one
\* being phase 4 of pixel 0.
C3_Witness ==
  /\ hist.ok
  /\ hist.ticks = PHASE_COUNT * PIXEL_COUNT
  /\ hist.pair = <<0, 4>>

\* C4 as stated: in a window of 30 consecutive overflows (one pass over all
\* six pixels) the frame callback is invoked exactly once.
C4_OneCallbackPerPass ==
  (hist.ok /\ hist.ticks = PHASE_COUNT * PIXEL_COUNT) => hist.calls = 1

\* The pixels are disabled: pixel_disable has returned (or pixel_enable was
\* never called) and no pixel_enable is under way.
Quiet ==
  /\ Initialised
  /\ TCCR0B = 0
  /\ \/ fgOp \notin {"enable", "disable"}
     \/ fgOp = "disable" /\ fgPc = "ret"

C7_EnableResetsSequencer ==
  (fgOp = "enable" /\ fgPc = "ret" /\ ~fgIsr) =>
    (phase = 0 /\ currentPixel = 0)

\* C7 amended: no statement of pixel_enable (the call, its body, its return)
\* changes phase or currentPixel: when it returns they hold the values they
\* had when it was called, so after a disable in the middle of a pixel cycle
\* the sequencer resumes where it stopped.
C7_EnableKeepsSequencer ==
  [][ (FgMoves /\ (fgOp = "enable" \/ fgOp' = "enable")) =>
        (phase' = phase /\ currentPixel' = currentPixel) ]_vars

\* C7 witness: pixel_enable returns after a disable in the middle of a
\* pixel cycle, with no overflow serviced during the call.
C7_Witness ==
  /\ fgOp = "enable"
  /\ fgPc = "ret"
  /\ ~fgIsr
  /\ ~hist.ok
  /\ phase = 3
  /\ currentPixel = 2

\* C8 as stated: after pixel_disable followed by pixel_enable (no colour set
\* in between) the colour store equals the store before the disable.
C8_EnableRestoresColours ==
  (fgOp = "enable" /\ fgPc = "ret" /\ saved # NoSave) => Store(State) = saved

RECURSIVE RunCall(_)
RunCall(s) ==
  IF s.fgPc = "ret" THEN LeaveCall(s) ELSE RunCall(ForegroundStep(s))

Enable(s) == RunCall(EnterEnable(s))

Disable(s) == RunCall(EnterDisable(s))

\* The externally observable state.
Obs(s) ==
  << s.rawValueR, s.rawValueG, s.rawValueB, s.phase, s.currentPixel,
     s.PIXEL_PORT, s.PIXEL_DDR, s.BLUE_SINK_PORT, s.BLUE_SINK_DDR,
     s.OCR0A, s.OCR0B, s.OCR2B, s.TCCR0A, s.TCCR0B, s.TCCR2A, s.TCCR2B,
     s.TIMSK0 >>

\* C10: from every state in which a call can be made, pixel_enable called
\* twice in a row (no overflow serviced during the calls) leaves the same
\* observable state as calling it once, and so does pixel_disable.
C10_LifecycleIdempotent ==
  (Idle /\ Initialised) =>
    /\ Obs(Enable(Enable(State))) = Obs(Enable(State))
    /\ Obs(Disable(Disable(State))) = Obs(Disable(State))

\* C10 witness: a state in which one pixel_enable and one pixel_disable each
\* change the observable state (pixels enabled, a colour stored, an anode
\* active).
C10_Witness ==
  /\ Idle
  /\ Initialised
  /\ ActiveAnodes(State) # {}
  /\ ~StoreAllOff(State)
  /\ Obs(Enable(State)) # Obs(State)
  /\ Obs(Disable(State)) # Obs(State)

(* ------------------------------------------------------------------ *)
(* The phase table (pixel_isr, cases 0..4)                             *)
(* ------------------------------------------------------------------ *)

\* A step taken by the handler that was entered with phase = k.
HandlerStep(k) == isrPc \notin {"idle", "sei"} /\ isrIn[1] = k

\* The last statement of the handler entered with phase = k.
HandlerReturn(k) == HandlerStep(k) /\ isrPc' = "idle"

C12_OnePhasePerOverflow ==
  [][ /\ (isrPc # "idle" /\ isrPc' = "idle") =>
           /\ phase' = (isrIn[1] + 1) % PHASE_COUNT
           /\ currentPixel' = IF isrIn[1] = 0
                                THEN (isrIn[2] + 1) % PIXEL_COUNT
                                ELSE isrIn[2]
      /\ (isrPc = "idle" \/ isrPc = "sei") =>
           <<phase, currentPixel>>' = <<phase, currentPixel>>
      /\ \A k \in 1 .. (PHASE_COUNT - 1) :
           HandlerStep(k) => currentPixel' = currentPixel
    ]_vars

\* C12 witness: the phase-0 handler entered at the last pixel has returned,
\* with phase 1 and the pixel index wrapped to 0.
C12_Witness ==
  /\ isrPc = "idle"
  /\ isrIn = <<0, PIXEL_COUNT - 1>>
  /\ phase = 1
  /\ currentPixel = 0
  /\ hist.ok
  /\ hist.ticks > 1

\* C13: the charge pump goes from idle to charging only in a step of the
\* phase-0 handler, only when the stored blue value of the pixel just
\* selected is not off, and only with every anode inactive; the pump is
\* charging at no other point of the pixel cycle than between that step and
\* the first statement of the phase-1 handler, so a pixel whose stored blue
\* value is off at the test never has the sink driven.
C13_ChargeOnlyInPhase0 ==
  [][ /\ (~PumpCharging(State) /\ PumpCharging(State)') =>
           /\ HandlerStep(0)
           /\ currentPixel \in Pixels
           /\ rawValueB[currentPixel] # OFF
           /\ ActiveAnodes(State) = {}
           /\ ActiveAnodes(State)' = {}
      /\ PumpCharging(State) =>
           \/ HandlerStep(0)
           \/ phase = 1 /\ isrPc \in {"idle", "sei", "p1_sink"}
      /\ (isrPc = "p0_blue" /\ rawValueB[currentPixel] = OFF) =>
           ~PumpCharging(State) /\ ~PumpCharging(State)'
    ]_vars

\* C13 witness: the phase-0 handler has just started charging for a pixel
\* with a stored blue value other than off.
C13_Witness ==
  /\ isrPc = "p0_phase"
  /\ PumpCharging(State)
  /\ rawValueB[currentPixel] # OFF
  /\ ActiveAnodes(State) = {}

(* ------------------------------------------------------------------ *)
(* Compare values in effect                                            *)
(* ------------------------------------------------------------------ *)

\* The channels whose compare value in effect is not off.
LitChannels(s) ==
  {ch \in {"R", "G", "B"} :
     CASE ch = "R" -> s.eff0A # OFF
       [] ch = "G" -> s.eff0B # OFF
       [] ch = "B" -> s.eff2B # OFF}

\* C14: with double-buffered compare registers, whenever a PWM timer is
\* clocked at most one of the three compare values in effect (red, green,
\* blue) differs from off, whatever colours are stored and however the
\* foreground calls interleave with the handler.
C14_OneChannelPerPeriod ==
  (Timer0Running(State) \/ Timer2Running(State)) =>
    Cardinality(LitChannels(State)) <= 1

\* C14 witness: the red duty of a pixel is in effect while the handler has
\* already written red off and a green duty other than off for the next
\* period.
C14_Witness ==
  /\ Timer0Running(State)
  /\ Timer2Running(State)
  /\ isrPc = "idle"
  /\ phase = 4
  /\ LitChannels(State) = {"R"}
  /\ OCR0A = OFF
  /\ OCR0B # OFF

(* ------------------------------------------------------------------ *)
(* What the handler reads from the colour store                        *)
(* ------------------------------------------------------------------ *)

\* The store entries one completed pixel_setRGB(p, c) leaves for pixel p.
TripleOf(c) ==
  [ch \in {"R", "G", "B"} |->
     CASE ch = "R" -> Duty(c[1], DIV_R)
       [] ch = "G" -> Duty(c[2], DIV_G)
       [] ch = "B" -> Duty(c[3], DIV_B)]

\* C15: in every pixel cycle, the values the handler has read from the
\* store for the pixel (the blue test of phase 0 and the blue, red and green
\* values armed afterwards) are all the values written by one and the same
\* completed pixel_setRGB call.
C15_NoTornPixel ==
  \E c \in Colours :
    \A i \in 1 .. Len(seen) : seen[i][2] = TripleOf(c)[seen[i][1]]

\* The handler has read all four values of a pixel cycle, and the pixel was
\* rewritten between the blue test and the arming of blue.
C15_TornCycle ==
  /\ Len(seen) = 4
  /\ seen[1][2] = OFF
  /\ seen[2][2] # OFF

(* ------------------------------------------------------------------ *)
(* The colour mapper (pixel_setRGB, pixel_SetAllRGB)                   *)
(* ------------------------------------------------------------------ *)

\* The mapper call has run to its return.
MapperDone == fgOld # <<>> /\ fgPc = "ret"

\* The pixels the call in progress writes.
Written == IF fgOp = "setRGB" THEN {fgP} ELSE Pixels

Channel == <<"R", "G", "B">>

Divisor == <<DIV_R, DIV_G, DIV_B>>

\* For channel k and input x: no input y >= x has a stored value above
\* that of x (as a table, so that it is computed once).
NoBrighterStoresMore ==
  [k \in 1 .. 3 |->
     [x \in 0 .. MaxInput |->
        \A y \in x .. MaxInput :
          Duty(y, Divisor[k]) <= Duty(x, Divisor[k])]]

\* C16: for every pixel and channel, the value pixel_setRGB stores is a
\* function of that channel's input alone (whatever the other two inputs,
\* the pixel and the store before), and is monotonic in brightness: for
\* inputs x <= y the value stored for y is at most the value stored for x
\* (never closer to off).
C16_DutyMonotone ==
  MapperDone =>
    \A p \in Written, k \in 1 .. 3 :
      LET v == RawValue(State, Channel[k])[p]
          x == fgRGB[k]
      IN  /\ v = Duty(x, Divisor[k])
          /\ v \in 0 .. OFF
          /\ NoBrighterStoresMore[k][x]

\* C16 witness: a call with unequal inputs on the three channels has stored
\* three values strictly between full on and off in the last pixel.
C16_Witness ==
  /\ MapperDone
  /\ fgOp = "setRGB"
  /\ fgP = PIXEL_COUNT - 1
  /\ fgRGB[2] < fgRGB[1]
  /\ fgRGB[3] < fgRGB[2]
  /\ rawValueR[fgP] < OFF
  /\ rawValueG[fgP] < rawValueB[fgP]
  /\ rawValueB[fgP] < OFF

\* The store entries of pixel p, as <<red, green, blue>>.
PixelOf(st, p) == <<st[1][p], st[2][p], st[3][p]>>

\* C17: when pixel_SetAllRGB(0,0,0) returns, every store entry of all six
\* pixels is off (255); when pixel_setRGB(p,0,0,0) returns, the three
\* entries of pixel p are off.
C17_BlackIsOff ==
  (MapperDone /\ fgRGB = <<0, 0, 0>>) =>
    /\ \A p \in Written : PixelOf(Store(State), p) = <<OFF, OFF, OFF>>
    /\ fgOp = "SetAllRGB" => StoreAllOff(State)

\* C17 witness: pixel_SetAllRGB(0,0,0) has returned on a store in which
\* two pixels held different colours, all entries other than off.
C17_Witness ==
  /\ MapperDone
  /\ fgOp = "SetAllRGB"
  /\ fgRGB = <<0, 0, 0>>
  /\ StoreAllOff(State)
  /\ PixelOf(fgOld, 0) # PixelOf(fgOld, PIXEL_COUNT - 1)
  /\ \A p \in Pixels, k \in 1 .. 3 : PixelOf(fgOld, p)[k] # OFF

\* C18: when pixel_setRGB(p, r, g, b) returns, the store entries of pixel p
\* are the three values determined by (r, g, b), whatever the store held
\* before the call; after (0,0,0) they are off on every channel, with
\* nothing left of an earlier colour.
C18_LastCallWins ==
  (MapperDone /\ fgOp = "setRGB") =>
    /\ PixelOf(Store(State), fgP) =
         <<TripleOf(fgRGB)["R"], TripleOf(fgRGB)["G"], TripleOf(fgRGB)["B"]>>
    /\ fgRGB = <<0, 0, 0>> => PixelOf(Store(State), fgP) = <<OFF, OFF, OFF>>

\* C18 witness: pixel 0 held the colour of an earlier call with full red,
\* and pixel_setRGB(0, 0, 0, 0) has returned.
C18_Witness ==
  /\ MapperDone
  /\ fgOp = "setRGB"
  /\ fgP = 0
  /\ fgRGB = <<0, 0, 0>>
  /\ PixelOf(fgOld, 0)[1] = Duty(MaxInput, DIV_R)
  /\ PixelOf(fgOld, 0) # PixelOf(fgOld, 1)
  /\ PixelOf(Store(State), 0) = <<OFF, OFF, OFF>>

(* ------------------------------------------------------------------ *)
(* Who writes what                                                     *)
(* ------------------------------------------------------------------ *)

\* The colour store; a step that leaves the store entries of every pixel
\* other than p unchanged.
StoreNow == <<rawValueR, rawValueG, rawValueB>>

OtherPixelsKept(p) ==
  \A i \in Pixels \ {p} :
    /\ rawValueR'[i] = rawValueR[i]
    /\ rawValueG'[i] = rawValueG[i]
    /\ rawValueB'[i] = rawValueB[i]

\* Everything the file keeps apart from the colour store.
Hardware ==
  << phase, currentPixel, PIXEL_PORT, PIXEL_DDR, BLUE_SINK_PORT,
     BLUE_SINK_DDR, OCR0A, OCR0B, OCR2B, eff0A, eff0B, eff2B, TCCR0A, TCCR0B,
     TCCR2A, TCCR2B, TIMSK0 >>

\* C19: every step of a pixel_setRGB(p, r, g, b) call, from its entry to
\* its return, leaves unchanged the store entries of every pixel other than
\* p, phase, currentPixel, the anodes, the pump sink and all timer control
\* and compare registers; entering and leaving the call change no store
\* entry at all.
C19_SetRGBFrame ==
  [][ (FgMoves /\ (fgOp = "setRGB" \/ fgOp' = "setRGB")) =>
        LET p == IF fgOp = "setRGB" THEN fgP ELSE fgP'
        IN  /\ Hardware' = Hardware
            /\ fgPc \notin SetPcs => StoreNow' = StoreNow
            /\ OtherPixelsKept(p)
    ]_vars

\* C19 witness: pixel_setRGB has returned with the pixels enabled, an anode
\* active, and the pixel it wrote holding a colour other than that of the
\* next pixel.
C19_Witness ==
  /\ fgOp = "setRGB"
  /\ fgPc = "ret"
  /\ isrPc = "idle"
  /\ Timer0Running(State)
  /\ ActiveAnodes(State) # {}
  /\ phase = 3
  /\ PixelOf(Store(State), fgP) # PixelOf(Store(State), fgP + 1)
  /\ PixelOf(Store(State), fgP) = PixelOf(Store(State), fgP + 2)

\* The state with every register the foreground writes (other than the
\* colour store) holding another value: the compare registers, the timer
\* control registers, the pins.
OtherRegisters(s) ==
  [s EXCEPT !.OCR0A = Byte(@ + 1), !.OCR0B = Byte(@ + 1),
            !.OCR2B = Byte(@ + 1),
            !.TCCR0A = Byte(@ + 1), !.TCCR0B = Byte(@ + 1),
            !.TCCR2A = Byte(@ + 1), !.TCCR2B = Byte(@ + 1),
            !.TIMSK0 = Byte(@ + 1),
            !.BLUE_SINK_PORT = 1 - @, !.BLUE_SINK_DDR = 1 - @,
            !.PIXEL_PORT = [i \in Pixels |-> 1 - @[i]],
            !.PIXEL_DDR = [i \in Pixels |-> 1 - @[i]]]

\* One field x, before (xs, xt) and after (xa, xb) the same statement run
\* from two states: written with the same value, or left alone in both.
SameWrite(xs, xa, xt, xb) == xb = xa \/ (xa = xs /\ xb = xt)

\* The next statement of the handler does the same from s and from t, on
\* every field the code can see (each bit of the anode registers apart);
\* the bookkeeping and the compare values in effect are left out.
SameStatement(s, t) ==
  LET a == pixel_isr(s)
      b == pixel_isr(t)
  IN  /\ b.isrPc = a.isrPc
      /\ b.phase = a.phase
      /\ b.currentPixel = a.currentPixel
      /\ b.rawValueR = a.rawValueR
      /\ b.rawValueG = a.rawValueG
      /\ b.rawValueB = a.rawValueB
      /\ SameWrite(s.OCR0A, a.OCR0A, t.OCR0A, b.OCR0A)
      /\ SameWrite(s.OCR0B, a.OCR0B, t.OCR0B, b.OCR0B)
      /\ SameWrite(s.OCR2B, a.OCR2B, t.OCR2B, b.OCR2B)
      /\ SameWrite(s.TCCR0A, a.TCCR0A, t.TCCR0A, b.TCCR0A)
      /\ SameWrite(s.TCCR0B, a.TCCR0B, t.TCCR0B, b.TCCR0B)
      /\ SameWrite(s.TCCR2A, a.TCCR2A, t.TCCR2A, b.TCCR2A)
      /\ SameWrite(s.TCCR2B, a.TCCR2B, t.TCCR2B, b.TCCR2B)
      /\ SameWrite(s.TIMSK0, a.TIMSK0, t.TIMSK0, b.TIMSK0)
      /\ SameWrite(s.BLUE_SINK_PORT, a.BLUE_SINK_PORT,
                   t.BLUE_SINK_PORT, b.BLUE_SINK_PORT)
      /\ SameWrite(s.BLUE_SINK_DDR, a.BLUE_SINK_DDR,
                   t.BLUE_SINK_DDR, b.BLUE_SINK_DDR)
      /\ \A i \in Pixels :
           /\ SameWrite(s.PIXEL_PORT[i], a.PIXEL_PORT[i],
                        t.PIXEL_PORT[i], b.PIXEL_PORT[i])
           /\ SameWrite(s.PIXEL_DDR[i], a.PIXEL_DDR[i],
                        t.PIXEL_DDR[i], b.PIXEL_DDR[i])

\* C20: no step of the foreground (pixel_init, pixel_setRGB,
\* pixel_SetAllRGB, pixel_enable, pixel_disable) changes phase or
\* currentPixel; no step of the overflow handler changes the colour store;
\* and what a statement of the handler does is the same whatever the other
\* registers the foreground writes hold, so that the colour store is the
\* only state written by the foreground and read by the handler.
C20_SingleWriter ==
  [][ /\ FgMoves => <<phase, currentPixel>>' = <<phase, currentPixel>>
      /\ ~FgMoves => StoreNow' = StoreNow
      /\ isrPc # "idle" => LET s == State
                           IN  SameStatement(s, OtherRegisters(s))
    ]_vars

\* C20 witness: pixel_disable is stopping the timers in the middle of a
\* pixel cycle, with a colour in the store and an anode active.
C20_Witness ==
  /\ fgOp = "disable"
  /\ fgPc = "off_anodes"
  /\ isrPc = "idle"
  /\ phase = 3
  /\ currentPixel = 2
  /\ ActiveAnodes(State) = {2}
  /\ ~StoreAllOff(State)

(* ------------------------------------------------------------------ *)
(* Starting the clocks (pixelTimersOn)                                 *)
(* ------------------------------------------------------------------ *)

\* The statement that starts the clock of Timer0, of Timer2.
Starts0 == TCCR0B = 0 /\ TCCR0B' # 0

Starts2 == TCCR2B = 0 /\ TCCR2B' # 0

ReachesCallback == isrPc # "p4_callback" /\ isrPc' = "p4_callback"
                   /\ isrPc \in Case4Pcs

\* An overflow interrupts the callback.
InterruptsCallback == isrPc = "p4_callback" /\ isrPc' = "sei"

\* The one handler nested inside the callback returns to it.
NestedInCallbackReturns ==
  /\ nest.count = 1
  /\ nest.stack # <<>> /\ Head(nest.stack)[1] = "p4_callback"
  /\ nest'.stack = <<>>

MaxDivisor == 4

DistinctDivisors ==
  {d \in [1 .. 3 -> 1 .. MaxDivisor] :
     d[1] # d[2] /\ d[1] # d[3] /\ d[2] # d[3]}

\* The values a mapper call has stored are those of the stated formula with
\* divisors d.
StoredWith(d) ==
  \A p \in Written, k \in 1 .. 3 :
    RawValue(State, Channel[k])[p] = OFF - (gamma8[fgRGB[k] + 1] \div d[k])

\* C23 as stated: the stored values are 255 - (gamma8[input] div d_c) for
\* three pairwise distinct divisors d_R, d_G, d_B.
C23_DistinctDivisors ==
  MapperDone => \E d \in DistinctDivisors : StoredWith(d)

\* C23: the mapper stores 255 - (gamma8[input] div d_c) with a fixed divisor
\* per channel; red has a divisor of its own, green and blue share one, so
\* equal green and blue inputs are stored as equal values.
C23_MapperFormula ==
  MapperDone =>
    /\ StoredWith(Divisor)
    /\ DIV_G = DIV_B /\ DIV_R # DIV_G
    /\ fgRGB[2] = fgRGB[3] =>
         \A p \in Written : rawValueG[p] = rawValueB[p]

\* C23 witness: pixel_setRGB(p, 255, 255, 255) has returned; green and blue
\* hold the same value, red a dimmer one.
C23_Witness ==
  /\ MapperDone
  /\ fgOp = "setRGB"
  /\ fgRGB = <<MaxInput, MaxInput, MaxInput>>
  /\ rawValueG[fgP] = rawValueB[fgP]
  /\ rawValueG[fgP] < rawValueR[fgP]
  /\ rawValueR[fgP] < OFF

\* ---------------------------------------------------------------------------
\* An overflow is taken: a PWM period begins and its handler is entered.
PeriodStart == isrPc = "idle" /\ isrPc' = "sei"

\* The compare values in effect in the period that begins now, against the
\* phase k its handler dispatches on (blue has a period only while Timer2 is
\* clocked).
Windows(k) ==
  /\ (eff2B' # OFF /\ Timer2Running(State)) => k = 2
  /\ eff0A' # OFF => k = 3
  /\ eff0B' # OFF => k = 4

EffKept == <<eff0A, eff0B, eff2B>>' = <<eff0A, eff0B, eff2B>>

\* C24 as stated: a compare value in effect differs from off only in the
\* period of its phase handler; so a period that begins without a handler,
\* when pixel_enable starts the clocks, has all three values off.
C24_WindowsEverywhere ==
  [][ /\ PeriodStart => Windows(phase)
      /\ Starts0 => <<eff0A, eff0B>>' = <<OFF, OFF>>
      /\ Starts2 => eff2B' = OFF
    ]_vars

\* What does hold of the display windows: in every period that begins with
\* an overflow handler, the blue value
\* in effect differs from off only if the handler is that of phase 2, the red
\* value only for phase 3, the green value only for phase 4; in phase-0 and
\* phase-1 periods all three are off.  The values in effect do not change
\* within such a period.  In the period pixel_enable begins, before the first
\* overflow, red and green are off.
DisplayWindowsAfterOverflow ==
  [][ /\ PeriodStart => Windows(phase)
      /\ isrPc # "idle" => EffKept
      /\ (FgMoves /\ Timer0Running(State) /\ Timer2Running(State)
            /\ TCCR0B' # 0 /\ TCCR2B' # 0) => EffKept
      /\ Starts0 => <<eff0A, eff0B>>' = <<OFF, OFF>>
    ]_vars

\* A display window: the blue duty of pixel 1 is in effect in its phase-2 period,
\* while the handler has already written the red duty for the next one.
BlueWindow ==
  /\ isrPc = "p2_phase"
  /\ isrIn = <<2, 1>>
  /\ eff2B = rawValueB[1] /\ eff2B # OFF
  /\ OCR2B = OFF
  /\ OCR0A # OFF /\ eff0A = OFF
  /\ ActiveAnodes(State) = {1}

\* ---------------------------------------------------------------------------
\* The active anodes.  A compare value other than off is in effect on a
\* clocked timer while an
\* anode is active.
AnodesNow == {i \in Pixels : PIXEL_DDR[i] = 1 /\ PIXEL_PORT[i] = 1}

LitAnode ==
  /\ AnodesNow # {}
  /\ \/ TCCR0B # 0 /\ (eff0A # OFF \/ eff0B # OFF)
     \/ TCCR2B # 0 /\ eff2B # OFF

\* A value other than off that comes into effect while an anode is active is
\* the one the handler of phase k, the handler of the preceding overflow,
\* wrote for the pixel whose anode is active.
LatchedFrom(k, eff, effNext, ocr) ==
  (effNext # eff /\ effNext # OFF /\ AnodesNow' # {}) =>
     /\ effNext = ocr
     /\ isrIn = <<k, currentPixel>>
     /\ AnodesNow = {currentPixel}

\* The handler statement at pc writes the store entry of currentPixel to the
\* compare register; no other statement writes a value other than off.
WrittenFromStore(pc, ocr, ocrNext, raw) ==
  /\ isrPc = pc => ocrNext = raw[currentPixel]
  /\ isrPc # pc => ocrNext \in {ocr, OFF}

\* C25: whenever a compare value other than off is in effect while an anode
\* is active, the active anode is that of currentPixel, and the value is the
\* store entry of that pixel and channel as the handler of the preceding
\* overflow read and wrote it: for any sequence of pixel_setRGB,
\* pixel_SetAllRGB, pixel_enable and pixel_disable calls, at any point of a
\* pixel cycle.
C25_NoWrongAnode ==
  [][ /\ LitAnode' => AnodesNow' = {currentPixel'}
      /\ (LitAnode' /\ ~LitAnode) => (~EffKept \/ (fgOp = "enable" /\ fgIsr))
      /\ LatchedFrom(1, eff2B, eff2B', OCR2B)
      /\ LatchedFrom(2, eff0A, eff0A', OCR0A)
      /\ LatchedFrom(3, eff0B, eff0B', OCR0B)
      /\ WrittenFromStore("p1_OCR2B", OCR2B, OCR2B', rawValueB)
      /\ WrittenFromStore("p2_OCR0A", OCR0A, OCR0A', rawValueR)
      /\ WrittenFromStore("p3_OCR0B", OCR0B, OCR0B', rawValueG)
    ]_vars

\* C25 witness: after a pixel_disable and pixel_enable, the green duty the
\* phase-3 handler read for pixel 1 is in effect with the anode of pixel 1
\* active, while the store already holds another green value for it.
C25_Witness ==
  /\ LitAnode
  /\ ~hist.ok
  /\ AnodesNow = {1}
  /\ isrIn = <<PHASE_COUNT - 1, 1>>
  /\ eff0B # OFF
  /\ rawValueG[1] # eff0B

\* ---------------------------------------------------------------------------
\* C26: whenever the phase-1 handler arms a blue value other than off, the
\* blue test of the phase-0 handler of the same pixel cycle had read a value
\* other than off and so had charged the pump, whatever pixel_setRGB calls
\* ran in between.  (seen[1] is the value read by the blue test, seen[2] the
\* value armed.)
C26_ArmedBlueWasCharged ==
  (Len(seen) >= 2 /\ seen[2][2] # OFF) => seen[1][2] # OFF

\* ---------------------------------------------------------------------------
\* The first overflow after a pixel_enable that follows a pixel_disable: it
\* is taken when pixel_enable has started both clocks and no overflow has
\* been serviced since.
FirstOverflowAfterEnable ==
  /\ PeriodStart
  /\ fgOp = "enable" /\ fgPc = "ret" /\ ~fgIsr
  /\ saved # NoSave

\* C27: whatever the phase at which pixel_disable was issued, the handler of
\* the first overflow after the following pixel_enable executes the phase-0
\* step, with every anode inactive.
C27_ResumesWithPhase0 ==
  [][ FirstOverflowAfterEnable => (phase = 0 /\ AnodesNow = {}) ]_vars

\* What does hold: the first handler after pixel_enable dispatches on the
\* phase at which the sequencer stopped, with every anode inactive.
ResumesWhereStopped ==
  [][ FirstOverflowAfterEnable =>
        (isrIn' = <<phase, currentPixel>> /\ phase \in 0 .. PHASE_COUNT - 1
           /\ AnodesNow = {}) ]_vars

\* ---------------------------------------------------------------------------
\* Both PWM clocks run and the overflow interrupt is enabled.
Refreshing == TCCR0B # 0 /\ TCCR2B # 0 /\ TIMSK0 = TOIE0_MASK

\* The overflow, counted from 0 within a pass of 30, whose handler activates
\* the anode of pixel p: phase 1 of the pixel's cycle; pixel 1 comes first.
ActivationTick(p) == PHASE_COUNT * ((p + PIXEL_COUNT - 1) % PIXEL_COUNT) + 1

Activates(p) == AnodesNow = {} /\ AnodesNow' = {p}

\* C28: once enabled the pixels stay enabled, and while overflows keep being
\* serviced the anode of every pixel 0..5 is active again and again (at no
\* point is it inactive for ever after); pixel p is
\* activated by the handler of overflow ActivationTick(p) of every pass of
\* 30 overflows and by no other, so 30 overflows lie between two
\* activations of the same anode and every other anode is activated exactly
\* once in between.
C28_RefreshLive ==
  /\ \A p \in Pixels : []<>(~Refreshing \/ AnodesNow = {p})
  /\ [][ /\ Refreshing => Refreshing'
         /\ \A p \in Pixels :
              /\ Activates(p) => (isrPc = "p1_anode"
                                    /\ hist.ticks = ActivationTick(p))
              /\ (isrPc = "p1_anode" /\ hist.ticks = ActivationTick(p)) =>
                    Activates(p)
         /\ PeriodStart =>
              hist'.ticks = hist.ticks % (PHASE_COUNT * PIXEL_COUNT)
         /\ (isrPc # "idle" /\ isrPc' = "idle") =>
              hist'.ticks = hist.ticks + 1
         /\ (isrPc' = isrPc \/ (isrPc # "idle" /\ isrPc' # "idle")) =>
              hist'.ticks = hist.ticks
       ]_vars

\* C28 witness: the anode of pixel 0 has just been activated, by the handler
\* of overflow 26 of the pass, after the cycles of the five other pixels.
C28_Witness ==
  /\ Refreshing
  /\ AnodesNow = {0}
  /\ isrPc = "p1_OCR2B"
  /\ hist.ticks = ActivationTick(0)
  /\ hist.calls = PIXEL_COUNT - 1

\* ---------------------------------------------------------------------------
\* The handler statements that index the colour arrays or select an anode
\* with currentPixel.
IndexingPcs == {"p0_blue", "p1_anode", "p1_OCR2B", "p2_OCR0A", "p3_OCR0B"}

\* C29: in every reachable state phase is one of 0..4, and currentPixel is
\* one of 0..5 wherever the handler indexes the colour arrays or selects an
\* anode with it, also when an overflow nests inside a handler that is still
\* running.
C29_SequencerInRange ==
  /\ phase \in 0 .. PHASE_COUNT - 1
  /\ isrPc \in IndexingPcs => currentPixel \in Pixels

\* ---------------------------------------------------------------------------
\* Every entry of the colour store is off.
StoreOffNow ==
  \A i \in Pixels :
    rawValueR[i] = OFF /\ rawValueG[i] = OFF /\ rawValueB[i] = OFF

\* Nothing can light: the store is all off, the three compare registers
\* hold 255, no value other than off is in effect against an active anode
\* and the pump sink is idle.
Dark ==
  /\ StoreOffNow
  /\ <<OCR0A, OCR0B, OCR2B>> = <<OFF, OFF, OFF>>
  /\ ~LitAnode
  /\ ~(BLUE_SINK_DDR = 1 /\ BLUE_SINK_PORT = 0)

\* The handler statements that write a compare register, and what they
\* write.
IsrWrites255 ==
  /\ isrPc \in {"p1_OCR2B", "p2_OCR2B"} => OCR2B' = OFF
  /\ isrPc \in {"p2_OCR0A", "p3_OCR0A"} => OCR0A' = OFF
  /\ isrPc \in {"p3_OCR0B", "p4_OCR0B"} => OCR0B' = OFF

AtRest ==
  /\ TCCR0B = 0 /\ TCCR2B = 0
  /\ isrPc = "idle"
  /\ AnodesNow = {}
  /\ BLUE_SINK_DDR = 1 /\ BLUE_SINK_PORT = 1
  /\ phase = 0 /\ currentPixel = 0

StoredValue(p, k) == RawValue(State, Channel[k])[p]

Unwrapped(k) == OFF - (gamma8[fgRGB[k] + 1] \div Divisor[k])

\* C32: for inputs 0..255 the subtraction 255 - (gamma8[x] div d) never
\* wraps modulo 256: what a mapper call stores is the integer result.  The
\* red entry lies in 170..255, the green and blue entries in 128..255, and
\* the input 255 stores 170 for red and 128 for green and blue.
C32_DutyRange ==
  MapperDone =>
    \A p \in Written :
      /\ \A k \in 1 .. 3 :
           /\ StoredValue(p, k) = Unwrapped(k)
           /\ Unwrapped(k) \in 0 .. OFF
           /\ fgRGB[k] = MaxInput => StoredValue(p, k) = IF k = 1 THEN 170 ELSE 128
      /\ rawValueR[p] \in 170 .. OFF
      /\ rawValueG[p] \in 128 .. OFF
      /\ rawValueB[p] \in 128 .. OFF

\* C32 witness: pixel_setRGB(p, 255, 0, 127) has returned: red holds its
\* lowest value 170, green is off, blue lies strictly inside its range.
C32_Witness ==
  /\ MapperDone
  /\ fgOp = "setRGB"
  /\ fgRGB = <<MaxInput, 0, 127>>
  /\ rawValueR[fgP] = 170
  /\ rawValueG[fgP] = OFF
  /\ rawValueB[fgP] \in 129 .. OFF - 1

(* ------------------------------------------------------------------ *)
(* The older pipelined revision (src/unnamed/part_000)                 *)
(* ------------------------------------------------------------------ *)

\* In the older revision the handler is not split into phases: every
\* Timer0 overflow moves on to the next pixel, and the compare registers
\* are loaded one period ahead.  Timer0 is started by setupTimers and is
\* never written again; pixelTimerOn and pixelTimerOff write TCCR2B only.
\* The handler does not re-enable interrupts, so the foreground does not
\* run inside it.  Timer2 is started by pixel_enable at whatever moment the
\* foreground calls it, so its overflows (which load the buffered blue
\* value) are not aligned with Timer0's.
\*
\* previousPixel is the handler's static variable; currentPixel holds its
\* local of that name.  track.since counts the handler runs completed since
\* the last write to the colour store (up to 2), track.disabled is TRUE
\* from the return of pixel_disable to the next call of pixel_enable.

\* rawValueR, rawValueG: gamma8 / 4;  rawValueB: gamma8 / 2
OLD_DIV_R == 4

OLD_DIV_G == 4

OLD_DIV_B == 2

old_setupTimers(s) ==
  LET s1 == [s EXCEPT !.TIMSK0 = TOIE0_MASK]
      s2 == SetOCR0B(SetOCR0A(s1, OFF), OFF)
      s3 == [s2 EXCEPT !.TCCR0A = TCCR0A_PWM]
      s4 == [s3 EXCEPT !.TCCR0B = CS01_MASK]
      s5 == SetOCR2B(s4, OFF)
  IN  [s5 EXCEPT !.TCCR2A = TCCR2A_PWM]

old_pixelTimerOn(s) == [s EXCEPT !.TCCR2B = CS01_MASK]

old_pixelTimerOff(s) == [s EXCEPT !.TCCR2B = 0]

deactivateAnode(s, line) ==
  IF line \in Pixels THEN [s EXCEPT !.PIXEL_PORT[line] = 0] ELSE s

\* uint8_t currentPixel = previousPixel+1, wrapped at PIXEL_COUNT
old_currentPixel(s) ==
  IF s.previousPixel + 1 = PIXEL_COUNT THEN 0 ELSE s.previousPixel + 1

\* uint8_t nextPixel = currentPixel+1, wrapped at PIXEL_COUNT
nextPixel(s) ==
  IF s.currentPixel + 1 = PIXEL_COUNT THEN 0 ELSE s.currentPixel + 1

OldIsrDone(s) ==
  [s EXCEPT !.previousPixel = s.currentPixel,
            !.isrPc = "idle",
            !.track.since = Min(@ + 1, 2)]

old_pixel_isr(s) ==
  CASE s.isrPc = "deactivate" ->
         [deactivateAnode(s, s.previousPixel) EXCEPT !.isrPc = "sink_off"]
    [] s.isrPc = "sink_off" ->
         [s EXCEPT !.BLUE_SINK_PORT = 1,
                   !.currentPixel = old_currentPixel(s),
                   !.isrPc = "sink_on"]
    [] s.isrPc = "sink_on" ->
         [s EXCEPT !.BLUE_SINK_PORT =
                     IF s.rawValueB[s.currentPixel] # OFF THEN 0 ELSE @,
                   !.isrPc = "activate"]
    [] s.isrPc = "activate" ->
         [activateAnode(s, s.currentPixel) EXCEPT !.isrPc = "load_R"]
    [] s.isrPc = "load_R" ->
         [SetOCR0A(s, s.rawValueR[nextPixel(s)]) EXCEPT !.isrPc = "load_G"]
    [] s.isrPc = "load_G" ->
         [SetOCR0B(s, s.rawValueG[nextPixel(s)]) EXCEPT !.isrPc = "load_B"]
    [] s.isrPc = "load_B" ->
         [SetOCR2B(s, s.rawValueB[nextPixel(s)]) EXCEPT !.isrPc = "previous"]
    [] s.isrPc = "previous" -> OldIsrDone(s)

\* ISR(TIMER0_OVF_vect): pixel_isr(); return;
OldOverflowEntry(s) == [Overflow0(s) EXCEPT !.isrPc = "deactivate"]

OldAfterSetRGB(s) ==
  CASE s.fgOp = "setRGB" -> [s EXCEPT !.fgPc = "ret"]
    [] s.fgP + 1 < PIXEL_COUNT -> [s EXCEPT !.fgP = @ + 1, !.fgPc = "set_R"]
    [] OTHER -> [s EXCEPT !.fgP = 0, !.fgPc = "ret"]

old_pixel_setRGB(s) ==
  CASE s.fgPc = "set_R" ->
         [s EXCEPT !.rawValueR[s.fgP] = Duty(s.fgRGB[1], OLD_DIV_R),
                   !.track.since = 0,
                   !.fgPc = "set_G"]
    [] s.fgPc = "set_G" ->
         [s EXCEPT !.rawValueG[s.fgP] = Duty(s.fgRGB[2], OLD_DIV_G),
                   !.track.since = 0,
                   !.fgPc = "set_B"]
    [] s.fgPc = "set_B" ->
         OldAfterSetRGB([s EXCEPT !.rawValueB[s.fgP] =
                                     Duty(s.fgRGB[3], OLD_DIV_B),
                                  !.track.since = 0])

old_pixel_SetAllRGB(s) == old_pixel_setRGB(s)

old_pixel_disable(s) ==
  CASE s.fgPc = "timer_off" ->
         [old_pixelTimerOff(s) EXCEPT !.fgPc = "deactivate_previous"]
    [] s.fgPc = "deactivate_previous" ->
         [deactivateAnode(s, s.previousPixel) EXCEPT !.fgPc = "ret"]

old_pixel_enable(s) ==
  CASE s.fgPc = "timer_on" -> [old_pixelTimerOn(s) EXCEPT !.fgPc = "ret"]

\* pixel_init: setupPixelPins(); setupTimers(); pixel_SetAllRGB( 0 , 0 , 0 )
\* The two set-up functions are one step; the colour loop that follows runs
\* with Timer0 already clocked.
old_pixel_init(s) ==
  [old_setupTimers(setupPixelPins(s)) EXCEPT
     !.fgOp = "init", !.fgPc = "set_R", !.fgP = 0, !.fgRGB = <<0, 0, 0>>]

OldForegroundStep(s) ==
  CASE s.fgOp \in {"init", "SetAllRGB"} -> old_pixel_SetAllRGB(s)
    [] s.fgOp = "setRGB" -> old_pixel_setRGB(s)
    [] s.fgOp = "enable" -> old_pixel_enable(s)
    [] s.fgOp = "disable" -> old_pixel_disable(s)

OldEnterSetRGB(s, p, c) ==
  [s EXCEPT !.fgOp = "setRGB", !.fgPc = "set_R", !.fgP = p, !.fgRGB = c]

OldEnterSetAllRGB(s, c) ==
  [s EXCEPT !.fgOp = "SetAllRGB", !.fgPc = "set_R", !.fgP = 0, !.fgRGB = c]

OldEnterEnable(s) ==
  [s EXCEPT !.fgOp = "enable", !.fgPc = "timer_on",
            !.track.disabled = FALSE]

OldEnterDisable(s) == [s EXCEPT !.fgOp = "disable", !.fgPc = "timer_off"]

OldLeaveCall(s) ==
  [s EXCEPT !.fgOp = "none", !.fgPc = "idle", !.fgP = 0,
            !.fgRGB = <<0, 0, 0>>,
            !.track.disabled = IF s.fgOp = "disable" THEN TRUE ELSE @]

OldInit_pixel ==
  /\ Idle
  /\ ~Initialised
  /\ Install(old_pixel_init(State))

\* TIMER0_OVF_vect is taken.
OldTIMER0_OVF ==
  /\ isrPc = "idle"
  /\ TIMSK0 = TOIE0_MASK
  /\ Timer0Running(State)
  /\ Install(OldOverflowEntry(State))

\* Timer2 overflows on its own; it has no interrupt.
OldTIMER2_OVF ==
  /\ Timer2Running(State)
  /\ Install(Overflow2(State))

OldIsrStep ==
  /\ isrPc # "idle"
  /\ Install(old_pixel_isr(State))

OldCallSetRGB ==
  /\ Idle
  /\ Initialised
  /\ \E p \in SetPixels, c \in Colours : Install(OldEnterSetRGB(State, p, c))

OldCallSetAllRGB ==
  /\ Idle
  /\ Initialised
  /\ \E c \in Colours : Install(OldEnterSetAllRGB(State, c))

OldCallEnable ==
  /\ Idle
  /\ Initialised
  /\ Install(OldEnterEnable(State))

OldCallDisable ==
  /\ Idle
  /\ Initialised
  /\ Install(OldEnterDisable(State))

OldFgStep ==
  /\ isrPc = "idle"
  /\ fgPc \notin {"idle", "ret"}
  /\ Install(OldForegroundStep(State))

OldFgReturn ==
  /\ isrPc = "idle"
  /\ fgPc = "ret"
  /\ Install(OldLeaveCall(State))

NextOld ==
  \/ OldInit_pixel
  \/ OldTIMER0_OVF
  \/ OldTIMER2_OVF
  \/ OldIsrStep
  \/ OldCallSetRGB
  \/ OldCallSetAllRGB
  \/ OldCallEnable
  \/ OldCallDisable
  \/ OldFgStep
  \/ OldFgReturn

SpecOld == Init /\ [][NextOld]_vars

\* pixel_disable has returned and pixel_enable has not been called since.
OldDisabled == track.disabled

\* A handler run while disabled has driven an anode line high.
OldRelitWhileDisabled == OldDisabled /\ isrPc = "idle" /\ AnodesNow # {}

\* C33: in the older revision, from the return of pixel_disable to the next
\* call of pixel_enable all anodes are low, no overflow handler executes and
\* no anode becomes active.
C33_OffWhileDisabled ==
  OldDisabled => (isrPc = "idle" /\ AnodesNow = {})

\* A PWM period of pixel p with no concurrent colour change: pixel_init is
\* over, the handler has returned with p's anode active, and the store has
\* not been written since before the handler run that loaded the compare
\* registers for this period.
OldPeriodOf(p) ==
  /\ fgOp # "init"
  /\ isrPc = "idle"
  /\ AnodesNow = {p}
  /\ track.since = 2

\* The part of the pipeline that Timer0 and the handler keep by themselves:
\* red, green and the boost sink belong to the active pixel.
OldRedGreenSinkMatch ==
  \A p \in Pixels :
    OldPeriodOf(p) =>
      /\ eff0A = rawValueR[p]
      /\ eff0B = rawValueG[p]
      /\ PumpCharging(State) <=> rawValueB[p] # OFF

\* A period in which the blue value in effect is not the active pixel's,
\* with Timer2 running.
OldBlueAhead ==
  \E p \in Pixels :
    /\ OldPeriodOf(p)
    /\ Timer2Running(State)
    /\ eff2B # rawValueB[p]
    /\ eff2B = rawValueB[(p + 1) % PIXEL_COUNT]

\* C34: in the older revision, with no concurrent colour change, in every
\* PWM period the red, green and blue compare values in effect are the
\* stored values of the pixel whose anode is active, and the boost sink is
\* active exactly when that pixel's stored blue value is not 255.
C34_PipelineMatches ==
  \A p \in Pixels :
    OldPeriodOf(p) =>
      /\ eff0A = rawValueR[p]
      /\ eff0B = rawValueG[p]
      /\ eff2B = rawValueB[p]
      /\ PumpCharging(State) <=> rawValueB[p] # OFF

====
